---- MODULE Spec2Model ----
(***************************************************************************)
(* A model of scripts/generate-og-images.py: the colour parser, the        *)
(* horizontal gradient, the font fallback chain and the batch driver that  *)
(* renders the five Open Graph images and saves them.                      *)
(***************************************************************************)
EXTENDS Integers, Sequences, FiniteSets, TLC

(***************************************************************************)
(* Program constants                                                       *)
(***************************************************************************)
WIDTH == 1200
HEIGHT == 630

(***************************************************************************)
(* Bounds of the model                                                     *)
(***************************************************************************)
\* create_gradient is explored for every width 1..MaxWidth
MaxWidth == 10
\* main() is invoked at most MaxRuns times in a row
MaxRuns == 2

(***************************************************************************)
(* Python's float (IEEE 754 binary64), as far as `x / width`,             *)
(* `(r2 - r1) * ratio`, `r1 + ...` and int() need it.  Every value these   *)
(* expressions produce is below 2^9 and a multiple of 2^-Scale, so a float *)
(* is kept as the natural number value * 2^Scale, written in NLimbs limbs  *)
(* of LimbBits bits, least significant first; each operation computes the  *)
(* exact result and rounds it to Mantissa significant bits, ties to even.  *)
(***************************************************************************)
Mantissa == 53
LimbBits == 15
ScaleLimbs == 5
NLimbs == 7
Base == 2 ^ LimbBits
Limbs == 1..NLimbs

Pow2(k) == 2 ^ k

\* the float of a Python int 0 <= v < Base (the conversion is exact)
FromInt(v) == [i \in Limbs |-> IF i = ScaleLimbs + 1 THEN v ELSE 0]

\* the number of bits of a limb
LimbLen(v) ==
    IF v = 0 THEN 0
    ELSE CHOOSE k \in 1..LimbBits : Pow2(k - 1) <= v /\ v < Pow2(k)

TopLimb(n) ==
    IF \A i \in Limbs : n[i] = 0 THEN 0
    ELSE CHOOSE i \in Limbs : n[i] # 0 /\ \A j \in Limbs : j > i => n[j] = 0

BitLen(n) ==
    IF TopLimb(n) = 0 THEN 0
    ELSE (TopLimb(n) - 1) * LimbBits + LimbLen(n[TopLimb(n)])

\* bit i of n, the least significant bit being bit 0
Bit(n, i) == (n[(i \div LimbBits) + 1] \div Pow2(i % LimbBits)) % 2

LowNonzero(n, i) == \E j \in 0..(i - 1) : Bit(n, j) = 1

ClearLow(n, i) ==
    [k \in Limbs |->
        IF k <= i \div LimbBits THEN 0
        ELSE IF k = (i \div LimbBits) + 1
             THEN n[k] - (n[k] % Pow2(i % LimbBits))
             ELSE n[k]]

\* n + v * Base^(k-1), the carry running upwards
RECURSIVE AddAt(_, _, _)
AddAt(n, k, v) ==
    IF v = 0 \/ k > NLimbs THEN n
    ELSE LET t == n[k] + v
         IN AddAt([n EXCEPT ![k] = t % Base], k + 1, t \div Base)

\* round to nearest, ties to even, at Mantissa significant bits
RoundNearestEven(n) ==
    LET len == BitLen(n)
        drop == len - Mantissa
    IN IF len <= Mantissa THEN n
       ELSE LET up == /\ Bit(n, drop - 1) = 1
                      /\ (LowNonzero(n, drop - 1) \/ Bit(n, drop) = 1)
                cut == ClearLow(n, drop)
            IN IF up
               THEN AddAt(cut, (drop \div LimbBits) + 1, Pow2(drop % LimbBits))
               ELSE cut

\* long division of num by the int w, most significant limb first
RECURSIVE DivLimbs(_, _, _, _, _)
DivLimbs(num, w, k, r, q) ==
    IF k = 0 THEN [quot |-> q, rem |-> r]
    ELSE LET cur == r * Base + num[k]
         IN DivLimbs(num, w, k - 1, cur % w, [q EXCEPT ![k] = cur \div w])

\* x / w of two Python ints, 0 <= x, 0 < w <= Base: the correctly rounded
\* quotient (a remainder is kept as a sticky lowest bit, far below the
\* rounding position)
FloatDiv(x, w) ==
    LET d == DivLimbs(FromInt(x), w, NLimbs, 0, FromInt(0))
        q == d.quot
        sticky == IF d.rem # 0 /\ q[1] % 2 = 0
                  THEN [q EXCEPT ![1] = q[1] + 1] ELSE q
    IN RoundNearestEven(sticky)

RECURSIVE MulLimbs(_, _, _, _)
MulLimbs(n, d, k, carry) ==
    IF k > NLimbs THEN n
    ELSE LET t == n[k] * d + carry
         IN MulLimbs([n EXCEPT ![k] = t % Base], d, k + 1, t \div Base)

\* |d| * f of a Python int 0 <= d < Base and a float f, rounded
FloatMulInt(d, f) == RoundNearestEven(MulLimbs(f, d, 1, 0))

RECURSIVE AddLimbs(_, _, _, _)
AddLimbs(a, b, k, carry) ==
    IF k > NLimbs THEN a
    ELSE LET t == a[k] + b[k] + carry
         IN AddLimbs([a EXCEPT ![k] = t % Base], b, k + 1, t \div Base)

\* a - b for a >= b
RECURSIVE SubLimbs(_, _, _, _)
SubLimbs(a, b, k, borrow) ==
    IF k > NLimbs THEN a
    ELSE LET t == a[k] - b[k] - borrow
         IN SubLimbs([a EXCEPT ![k] = IF t < 0 THEN t + Base ELSE t], b, k + 1,
                     IF t < 0 THEN 1 ELSE 0)

FloatAdd(a, b) == RoundNearestEven(AddLimbs(a, b, 1, 0))
FloatSub(a, b) == RoundNearestEven(SubLimbs(a, b, 1, 0))

\* int(f) of a float f >= 0: the fraction is cut off
FloatToInt(f) == f[ScaleLimbs + 1] + Base * f[ScaleLimbs + 2]

(***************************************************************************)
(* Strings are sequences of one-character strings.                         *)
(***************************************************************************)
HexChars == <<"0", "1", "2", "3", "4", "5", "6", "7", "8", "9",
              "A", "B", "C", "D", "E", "F">>
LowerHexChars == <<"0", "1", "2", "3", "4", "5", "6", "7", "8", "9",
                   "a", "b", "c", "d", "e", "f">>

IsHexChar(c) == \E i \in 1..16 : HexChars[i] = c \/ LowerHexChars[i] = c
HexVal(c) == (CHOOSE i \in 1..16 : HexChars[i] = c \/ LowerHexChars[i] = c) - 1

\* str.lstrip('#'): every leading '#' is removed
RECURSIVE LStripHash(_)
LStripHash(s) ==
    IF s # <<>> /\ Head(s) = "#" THEN LStripHash(Tail(s)) ELSE s

\* s[i:i+2] for a 0-based i, clipped to the string as Python clips a slice
Slice2(s, i) ==
    SubSeq(s, i + 1, IF i + 2 <= Len(s) THEN i + 2 ELSE Len(s))

\* int(s, 16) of a string of hex digits; anything else raises ValueError
RECURSIVE FoldHex(_, _)
FoldHex(s, acc) ==
    IF s = <<>> THEN acc ELSE FoldHex(Tail(s), acc * 16 + HexVal(Head(s)))

IsHexString(s) == s # <<>> /\ \A i \in 1..Len(s) : IsHexChar(s[i])

\* the value a raising call hands back in the model
Raised(exc) == [raised |-> TRUE, exc |-> exc, rgb |-> <<>>]
Returned(rgb) == [raised |-> FALSE, exc |-> "", rgb |-> rgb]

hex_to_rgb_swapped(hex_color) ==
    LET h == LStripHash(hex_color)
    IN IF \E k \in 1..3 : ~IsHexString(Slice2(h, 2 * (k - 1)))
       THEN Raised("ValueError")
       ELSE Returned([k \in 1..3 |-> FoldHex(Slice2(h, 2 * (3 - k)), 0)])

\* hex_to_rgb: the tuple of the three channels; int(.., 16) raises ValueError
\* on a slice that is empty or holds anything but hex digits
hex_to_rgb(hex_color) ==
    LET h == LStripHash(hex_color)
    IN IF \E k \in 1..3 : ~IsHexString(Slice2(h, 2 * (k - 1)))
       THEN Raised("ValueError")
       ELSE Returned([k \in 1..3 |-> FoldHex(Slice2(h, 2 * (k - 1)), 0)])

\* '#%02X%02X%02X' (or its lower-case form) of three channels in 0..255
ToHex(r, g, b, lower) ==
    LET digits == IF lower THEN LowerHexChars ELSE HexChars
        two(v) == <<digits[(v \div 16) + 1], digits[(v % 16) + 1]>>
    IN <<"#">> \o two(r) \o two(g) \o two(b)

(***************************************************************************)
(* create_gradient, horizontal: one channel of column x                    *)
(***************************************************************************)
Abs(v) == IF v < 0 THEN -v ELSE v

GradientChannelRounded(c1, c2, x, width) ==
    LET ratio == FloatDiv(x, width)
        prod == FloatMulInt(Abs(c2 - c1), ratio)
        half == FloatDiv(1, 2)
    IN FloatToInt(FloatAdd(half,
                    IF c2 >= c1 THEN FloatAdd(FromInt(c1), prod)
                                ELSE FloatSub(FromInt(c1), prod)))

GradientChannelShifted(c1, c2, x, width) ==
    LET ratio == FloatDiv(x + 1, width)
        prod == FloatMulInt(Abs(c2 - c1), ratio)
    IN FloatToInt(IF c2 >= c1 THEN FloatAdd(FromInt(c1), prod)
                              ELSE FloatSub(FromInt(c1), prod))

\* ratio = x / width; int(c1 + (c2 - c1) * ratio), in float arithmetic
GradientChannel(c1, c2, x, width) ==
    LET ratio == FloatDiv(x, width)
        prod == FloatMulInt(Abs(c2 - c1), ratio)
    IN FloatToInt(IF c2 >= c1 THEN FloatAdd(FromInt(c1), prod)
                              ELSE FloatSub(FromInt(c1), prod))

\* the fill of column x: (r, g, b)
GradientFill(rgb1, rgb2, x, width) ==
    [k \in 1..3 |-> GradientChannel(rgb1[k], rgb2[k], x, width)]

(***************************************************************************)
(* The colours of the FORMATS table, as strings                            *)
(***************************************************************************)
Blue == <<"#", "2", "5", "6", "3", "E", "B">>
Purple == <<"#", "7", "C", "3", "A", "E", "D">>
PurpleLight == <<"#", "8", "B", "5", "C", "F", "6">>
Green == <<"#", "0", "5", "9", "6", "6", "9">>
GreenLight == <<"#", "1", "0", "B", "9", "8", "1">>
BlueLight == <<"#", "3", "B", "8", "2", "F", "6">>
Red == <<"#", "D", "C", "2", "6", "2", "6">>
RedLight == <<"#", "E", "F", "4", "4", "4", "4">>

\* FORMATS, a dict: its keys in insertion order, and its values (an icon is
\* named by its code point)
FormatKeys == <<"main", "americano", "mexicano", "mix", "team">>

FORMATS ==
    [k \in {"main", "americano", "mexicano", "mix", "team"} |->
      CASE k = "main" ->
            [filename |-> "og-image.png", title |-> "UberPadel",
             subtitle |-> "Tournament Manager",
             tagline |-> "Create & manage padel tournaments instantly",
             gradient |-> <<Blue, Purple>>, icon |-> "U+25CF"]
        [] k = "americano" ->
            [filename |-> "og-image-americano.png", title |-> "Americano Padel",
             subtitle |-> "Rotating Partners",
             tagline |-> "Everyone plays with everyone - 5-24 players",
             gradient |-> <<Purple, PurpleLight>>, icon |-> "U+25D0"]
        [] k = "mexicano" ->
            [filename |-> "og-image-mexicano.png", title |-> "Mexicano Padel",
             subtitle |-> "Dynamic Matchups",
             tagline |-> "Pairings based on standings - Competitive format",
             gradient |-> <<Green, GreenLight>>, icon |-> "U+25C6"]
        [] k = "mix" ->
            [filename |-> "og-image-mix.png", title |-> "Mix Tournament",
             subtitle |-> "20-28 Players",
             tagline |-> "Large group format with rest rotation",
             gradient |-> <<Blue, BlueLight>>, icon |-> "U+2605"]
        [] k = "team" ->
            [filename |-> "og-image-team.png", title |-> "Team League",
             subtitle |-> "Fixed Teams",
             tagline |-> "League format with group stages & knockouts",
             gradient |-> <<Red, RedLight>>, icon |-> "U+25B2"]]

NumFormats == Len(FormatKeys)

(***************************************************************************)
(* get_font                                                                *)
(***************************************************************************)
DejaVuBold == "/usr/share/fonts/truetype/dejavu/DejaVuSans-Bold.ttf"
DejaVuRegular == "/usr/share/fonts/truetype/dejavu/DejaVuSans.ttf"
LiberationBold == "/usr/share/fonts/truetype/liberation/LiberationSans-Bold.ttf"
LiberationRegular == "/usr/share/fonts/truetype/liberation/LiberationSans-Regular.ttf"
FontPaths == {DejaVuBold, DejaVuRegular, LiberationBold, LiberationRegular}

\* what is at a font path: a loadable font, nothing, or a file that is no font
FontStatus == {"ok", "missing", "corrupt"}

\* font_names, for the flag
font_names(bold) ==
    << IF bold THEN DejaVuBold ELSE DejaVuRegular,
       IF bold THEN LiberationBold ELSE LiberationRegular >>

NoFont == [path |-> "", size |-> 0]
\* ImageFont.load_default(): the built-in font, whatever size was asked
DefaultFont == [path |-> "load_default", size |-> 0]

FontRaised(exc, msg) == [raised |-> TRUE, exc |-> exc, msg |-> msg, font |-> NoFont]
FontReturned(font) == [raised |-> FALSE, exc |-> "", msg |-> "", font |-> font]

\* ImageFont.truetype(font_name, size): OSError when the file cannot be
\* opened, and OSError when it cannot be read as a font
truetype(font_name, size, files) ==
    CASE files[font_name] = "ok" ->
            FontReturned([path |-> font_name, size |-> size])
      [] files[font_name] = "missing" ->
            FontRaised("OSError", "cannot open resource")
      [] files[font_name] = "corrupt" ->
            FontRaised("OSError", "unknown file format")

CaughtOnlyMissing(r) == r.exc = "OSError" /\ r.msg = "cannot open resource"

\* except (IOError, OSError): continue
Caught(r) == r.exc \in {"IOError", "OSError"}

\* the loop over font_names from candidate i on, then the fallback
RECURSIVE TryFonts(_, _, _, _)
TryFonts(names, i, size, files) ==
    IF i > Len(names) THEN FontReturned(DefaultFont)
    ELSE LET r == truetype(names[i], size, files)
         IN IF ~r.raised THEN r
            ELSE IF Caught(r) THEN TryFonts(names, i + 1, size, files)
            ELSE r

get_font_liberation_first(size, bold, files) ==
    TryFonts(<<font_names(bold)[2], font_names(bold)[1]>>, 1, size, files)

get_font(size, bold, files) == TryFonts(font_names(bold), 1, size, files)

\* the five get_font calls of create_og_image, in order
FontCalls ==
    << [var |-> "font_title", size |-> 72, bold |-> TRUE],
       [var |-> "font_subtitle", size |-> 42, bold |-> TRUE],
       [var |-> "font_tagline", size |-> 28, bold |-> FALSE],
       [var |-> "font_icon", size |-> 60, bold |-> TRUE],
       [var |-> "font_brand", size |-> 24, bold |-> TRUE] >>

FontOf(fonts, var) ==
    fonts[CHOOSE i \in 1..Len(FontCalls) : FontCalls[i].var = var]

(***************************************************************************)
(* The canvas: its size and mode, the gradient at three sample columns,    *)
(* and the drawing calls made on it, in order                              *)
(***************************************************************************)
NoCanvas == [mode |-> "none", size |-> <<0, 0>>, gradient |-> <<>>, layers |-> <<>>]

SampleColumns(width) == {0, width \div 2, width - 1}

\* create_gradient(width, height, color1, color2, 'horizontal')
create_gradient(width, height, color1, color2) ==
    LET c1 == hex_to_rgb(color1)
        c2 == hex_to_rgb(color2)
    IN IF c1.raised \/ c2.raised
       THEN [raised |-> TRUE, exc |-> "ValueError", img |-> NoCanvas]
       ELSE [raised |-> FALSE, exc |-> "",
             img |-> [mode |-> "RGB", size |-> <<width, height>>,
                      gradient |-> [x \in SampleColumns(width) |->
                                       GradientFill(c1.rgb, c2.rgb, x, width)],
                      layers |-> <<>>]]

\* add_decorative_elements: twenty dots (centre and radius) and two lines
DecorLayer(width, height) ==
    [op |-> "decor",
     dots |-> [i \in 0..19 |->
                 <<((i * 150) % width) + 50, (i * 80) % height, 3 + (i % 3)>>],
     lines |-> << <<100, height \div 2, width - 100, height \div 2>>,
                  <<width \div 2, 100, width \div 2, height - 100>> >>]

\* Image.alpha_composite(img.convert('RGBA'), overlay)
OverlayLayer == [op |-> "overlay", fill |-> <<0, 0, 0, 60>>]

\* the five texts of create_og_image, in order: the config field (or the
\* literal), the font variable and the vertical position
center_y == HEIGHT \div 2
TextCalls ==
    << [what |-> "icon", font |-> "font_icon", y |-> center_y - 150],
       [what |-> "title", font |-> "font_title", y |-> center_y - 60],
       [what |-> "subtitle", font |-> "font_subtitle", y |-> center_y + 30],
       [what |-> "tagline", font |-> "font_tagline", y |-> center_y + 100],
       [what |-> "brand", font |-> "font_brand", y |-> HEIGHT - 50] >>

TextOf(config, what) ==
    CASE what = "icon" -> config.icon
      [] what = "title" -> config.title
      [] what = "subtitle" -> config.subtitle
      [] what = "tagline" -> config.tagline
      [] what = "brand" -> "uberpadel.com"

TextLayer(config, call, fonts) ==
    [op |-> "text", what |-> call.what, text |-> TextOf(config, call.what),
     font |-> FontOf(fonts, call.font), y |-> call.y]

\* the eight corner lines
AccentLayer ==
    [op |-> "accents",
     lines |-> << <<0, 0, 80, 0>>, <<0, 0, 0, 80>>,
                  <<WIDTH - 80, 0, WIDTH, 0>>, <<WIDTH - 1, 0, WIDTH - 1, 80>>,
                  <<0, HEIGHT - 1, 80, HEIGHT - 1>>, <<0, HEIGHT - 80, 0, HEIGHT>>,
                  <<WIDTH - 80, HEIGHT - 1, WIDTH, HEIGHT - 1>>,
                  <<WIDTH - 1, HEIGHT - 80, WIDTH - 1, HEIGHT>> >>]

Draw(img, layer) == [img EXCEPT !.layers = Append(@, layer)]

TextCallsTitleFirst ==
    << TextCalls[2], TextCalls[1], TextCalls[3], TextCalls[4], TextCalls[5] >>

\* the order in which create_og_image draws its texts
TextOrder == TextCalls

output_path_fixed(cfg) == "og-image.png"

\* os.path.join(output_dir, config['filename']): output_dir is fixed, so a
\* file of the directory is named by its basename
output_path(cfg) == cfg.filename

(***************************************************************************)
(* The output directory                                                    *)
(***************************************************************************)
DirStatus == {"ok", "missing", "unwritable"}

NoFiles == [f \in {} |-> NoCanvas]

\* the directory with `name` holding `content`, whatever it held before
WriteFileOnTop(fs, name, content) ==
    [f \in DOMAIN fs \cup {name} |->
        IF f # name THEN fs[f]
        ELSE IF name \in DOMAIN fs
             THEN [content EXCEPT !.layers = fs[name].layers \o @]
             ELSE content]

WriteFile(files, name, content) ==
    [f \in DOMAIN files \cup {name} |-> IF f = name THEN content ELSE files[f]]

SaveTruncatesFirst(dir, files, name, img) ==
    IF dir = "ok"
    THEN [raised |-> FALSE, exc |-> "", files |-> WriteFile(files, name, img)]
    ELSE [raised |-> TRUE,
          exc |-> IF dir = "missing" THEN "FileNotFoundError" ELSE "PermissionError",
          files |-> WriteFile(files, name, NoCanvas)]

\* img.convert('RGB').save(output_path, 'PNG'): the file is opened for
\* writing, which fails in a directory that is missing or not writable
\* before anything is created, and then holds the image
Save(dir, files, name, img) ==
    IF dir = "ok"
    THEN [raised |-> FALSE, exc |-> "", files |-> WriteFile(files, name, img)]
    ELSE [raised |-> TRUE,
          exc |-> IF dir = "missing" THEN "FileNotFoundError" ELSE "PermissionError",
          files |-> files]

(***************************************************************************)
(* main: where an exception raised inside create_og_image for the i-th     *)
(* format leaves the run (nothing catches it)                              *)
(***************************************************************************)
UncaughtContinues(i) ==
    [pc |-> IF i < NumFormats THEN "gradient" ELSE "summary",
     idx |-> IF i < NumFormats THEN i + 1 ELSE i]

Uncaught(i) == [pc |-> "aborted", idx |-> i]

(***************************************************************************)
(* State                                                                   *)
(***************************************************************************)
VARIABLES
    \* the environment: what is at each font path, and the output directory
    fontFiles, outdir, files,
    \* the process: the invocation, the position in main / create_og_image,
    \* the index of format_key in FORMATS, created_files, what was printed,
    \* and the exception that ended the run
    run, pc, idx, created_files, stdout, exc,
    \* the locals of create_og_image: img and the fonts loaded so far
    img, fonts,
    \* hex_to_rgb on its own: the channels drawn, the string, the result
    cpc, cin, cstr, cout,
    \* create_gradient on its own: arguments, locals, the image
    gpc, gwidth, gheight, gcolor1, gcolor2, grgb1, grgb2, gx, gimg

envVars == <<fontFiles, outdir>>
mainVars == <<files, run, pc, idx, created_files, stdout, exc, img, fonts>>
colorVars == <<cpc, cin, cstr, cout>>
gradVars == <<gpc, gwidth, gheight, gcolor1, gcolor2, grgb1, grgb2, gx, gimg>>
vars == <<envVars, mainVars, colorVars, gradVars>>

NoException == [type |-> "", at |-> ""]

\* a printed line: what it is, the file it names, the number it reports
Line(kind, name, count) == [kind |-> kind, name |-> name, count |-> count]

MainIdle ==
    /\ fontFiles = [f \in FontPaths |-> "ok"] /\ outdir = "ok" /\ files = NoFiles
    /\ run = 0 /\ pc = "idle" /\ idx = 0 /\ created_files = <<>>
    /\ stdout = <<>> /\ exc = NoException /\ img = NoCanvas /\ fonts = <<>>
ColorIdle ==
    /\ cpc = "idle" /\ cin = <<>> /\ cstr = <<>> /\ cout = Returned(<<>>)
GradIdle ==
    /\ gpc = "idle" /\ gwidth = 0 /\ gheight = 0
    /\ gcolor1 = <<>> /\ gcolor2 = <<>> /\ grgb1 = <<>> /\ grgb2 = <<>>
    /\ gx = 0 /\ gimg = <<>>

(***************************************************************************)
(* hex_to_rgb applied to the '#RRGGBB' string of three channels            *)
(***************************************************************************)
Channel == 0..255
\* the channels beside the one that runs over all of 0..255
ChannelSamples == {0, 10, 165, 255}

ColorInputs ==
    [r : Channel, g : ChannelSamples, b : ChannelSamples, lower : BOOLEAN]
    \cup [r : ChannelSamples, g : Channel, b : ChannelSamples, lower : BOOLEAN]
    \cup [r : ChannelSamples, g : ChannelSamples, b : Channel, lower : BOOLEAN]

ColorInit ==
    /\ cpc = "input" /\ cin \in ColorInputs
    /\ cstr = <<>> /\ cout = Returned(<<>>)
    /\ GradIdle /\ MainIdle

Format ==
    /\ cpc = "input"
    /\ cstr' = ToHex(cin.r, cin.g, cin.b, cin.lower)
    /\ cpc' = "formatted"
    /\ UNCHANGED <<cin, cout, gradVars, envVars, mainVars>>

Parse ==
    /\ cpc = "formatted"
    /\ cout' = hex_to_rgb(cstr)
    /\ cpc' = "parsed"
    /\ UNCHANGED <<cin, cstr, gradVars, envVars, mainVars>>

ColorNext == Format \/ Parse
ColorSpec == ColorInit /\ [][ColorNext]_vars

(***************************************************************************)
(* create_gradient(width, height, color1, color2, 'horizontal')            *)
(***************************************************************************)
Black == <<"#", "0", "0", "0", "0", "0", "0">>
White == <<"#", "F", "F", "F", "F", "F", "F">>
\* two colours near black, for gradients whose channels differ by less
\* than the width, and by a multiple of it
NearBlack == <<"#", "0", "3", "0", "2", "0", "1">>
Red90 == <<"#", "5", "A", "0", "0", "0", "0">>

GradientColors ==
    {Black, White, Blue, Purple, PurpleLight, Green, GreenLight, BlueLight,
     Red, RedLight, NearBlack, Red90}

GradInit ==
    /\ gpc = "call"
    /\ gwidth \in 1..MaxWidth
    /\ gheight = HEIGHT
    /\ gcolor1 \in GradientColors /\ gcolor2 \in GradientColors
    /\ grgb1 = <<>> /\ grgb2 = <<>> /\ gx = 0 /\ gimg = <<>>
    /\ ColorIdle /\ MainIdle

\* Image.new('RGB', (width, height)) is black; the two colours are parsed
GradEnter ==
    /\ gpc = "call"
    /\ gimg' = [x \in 0..(gwidth - 1) |-> <<0, 0, 0>>]
    /\ grgb1' = hex_to_rgb(gcolor1).rgb
    /\ grgb2' = hex_to_rgb(gcolor2).rgb
    /\ gx' = 0
    /\ gpc' = "loop"
    /\ UNCHANGED <<gwidth, gheight, gcolor1, gcolor2, colorVars, envVars, mainVars>>

\* one turn of `for x in range(width)`: the line from (x, 0) to (x, height)
GradColumn ==
    /\ gpc = "loop" /\ gx < gwidth
    /\ gimg' = [gimg EXCEPT ![gx] = GradientFill(grgb1, grgb2, gx, gwidth)]
    /\ gx' = gx + 1
    /\ UNCHANGED <<gpc, gwidth, gheight, gcolor1, gcolor2, grgb1, grgb2,
                   colorVars, envVars, mainVars>>

GradReturn ==
    /\ gpc = "loop" /\ gx = gwidth
    /\ gpc' = "returned"
    /\ UNCHANGED <<gwidth, gheight, gcolor1, gcolor2, grgb1, grgb2, gx, gimg,
                   colorVars, envVars, mainVars>>

GradNext == GradEnter \/ GradColumn \/ GradReturn
GradSpec == GradInit /\ [][GradNext]_vars

(***************************************************************************)
(* main() and create_og_image                                              *)
(***************************************************************************)
Init ==
    /\ fontFiles \in [FontPaths -> FontStatus]
    /\ outdir \in DirStatus
    /\ files = NoFiles
    /\ run = 1 /\ pc = "main" /\ idx = 0 /\ created_files = <<>>
    /\ stdout = <<>> /\ exc = NoException /\ img = NoCanvas /\ fonts = <<>>
    /\ ColorIdle /\ GradIdle

format_key == FormatKeys[idx]
config == FORMATS[format_key]

InImage ==
    {"gradient", "decor", "overlay", "fonts", "text", "accents", "save"}

\* an exception of type e leaves create_og_image at step `at`: its locals
\* are gone, and main does not catch it
Raise(e, at) ==
    /\ exc' = [type |-> e, at |-> at]
    /\ pc' = Uncaught(idx).pc
    /\ idx' = Uncaught(idx).idx
    /\ img' = NoCanvas /\ fonts' = <<>>

\* the banner, created_files = [], and the first format_key
MainStart ==
    /\ pc = "main"
    /\ stdout' = <<Line("banner", "", 0), Line("size", "", WIDTH * HEIGHT),
                   Line("blank", "", 0)>>
    /\ created_files' = <<>>
    /\ idx' = 1
    /\ pc' = "gradient"
    /\ UNCHANGED <<files, run, exc, img, fonts, envVars, colorVars, gradVars>>

CreateGradient ==
    /\ pc = "gradient"
    /\ LET r == create_gradient(WIDTH, HEIGHT, config.gradient[1], config.gradient[2])
       IN IF r.raised
          THEN Raise(r.exc, "gradient")
          ELSE /\ img' = r.img
               /\ pc' = "decor"
               /\ UNCHANGED <<idx, exc, fonts>>
    /\ UNCHANGED <<files, run, created_files, stdout, envVars, colorVars, gradVars>>

AddDecorativeElements ==
    /\ pc = "decor"
    /\ img' = Draw(img, DecorLayer(WIDTH, HEIGHT))
    /\ pc' = "overlay"
    /\ UNCHANGED <<files, run, idx, created_files, stdout, exc, fonts,
                   envVars, colorVars, gradVars>>

Overlay ==
    /\ pc = "overlay"
    /\ img' = [Draw(img, OverlayLayer) EXCEPT !.mode = "RGBA"]
    /\ pc' = "fonts"
    /\ UNCHANGED <<files, run, idx, created_files, stdout, exc, fonts,
                   envVars, colorVars, gradVars>>

\* the next of the five get_font calls
LoadFont ==
    /\ pc = "fonts"
    /\ LET call == FontCalls[Len(fonts) + 1]
           r == get_font(call.size, call.bold, fontFiles)
       IN IF r.raised
          THEN Raise(r.exc, "fonts")
          ELSE /\ fonts' = Append(fonts, r.font)
               /\ pc' = IF Len(fonts) + 1 = Len(FontCalls) THEN "text" ELSE "fonts"
               /\ UNCHANGED <<idx, exc, img>>
    /\ UNCHANGED <<files, run, created_files, stdout, envVars, colorVars, gradVars>>

TextsDrawn(i) == Len(SelectSeq(i.layers, LAMBDA l : l.op = "text"))

\* the next of the five texts: textbbox, then text
DrawText ==
    /\ pc = "text"
    /\ img' = Draw(img, TextLayer(config, TextOrder[TextsDrawn(img) + 1], fonts))
    /\ pc' = IF TextsDrawn(img) + 1 = Len(TextOrder) THEN "accents" ELSE "text"
    /\ UNCHANGED <<files, run, idx, created_files, stdout, exc, fonts,
                   envVars, colorVars, gradVars>>

CornerAccents ==
    /\ pc = "accents"
    /\ img' = Draw(img, AccentLayer)
    /\ pc' = "save"
    /\ UNCHANGED <<files, run, idx, created_files, stdout, exc, fonts,
                   envVars, colorVars, gradVars>>

\* save, print, return output_path; main appends it and takes the next key
SaveImage ==
    /\ pc = "save"
    /\ LET r == Save(outdir, files, output_path(config), [img EXCEPT !.mode = "RGB"])
       IN /\ files' = r.files
          /\ IF r.raised
             THEN /\ Raise(r.exc, "save")
                  /\ UNCHANGED <<stdout, created_files>>
             ELSE /\ stdout' = Append(stdout, Line("created", config.filename, 0))
                  /\ created_files' = Append(created_files, output_path(config))
                  /\ img' = NoCanvas /\ fonts' = <<>>
                  /\ pc' = IF idx < NumFormats THEN "gradient" ELSE "summary"
                  /\ idx' = IF idx < NumFormats THEN idx + 1 ELSE idx
                  /\ UNCHANGED exc
    /\ UNCHANGED <<run, envVars, colorVars, gradVars>>

\* the count and the list of files
Summary ==
    /\ pc = "summary"
    /\ stdout' = stdout
                  \o <<Line("blank", "", 0), Line("count", "", Len(created_files)),
                       Line("blank", "", 0), Line("files", "", 0)>>
                  \o [i \in 1..Len(created_files) |-> Line("file", created_files[i], 0)]
    /\ pc' = "done"
    /\ UNCHANGED <<files, run, idx, created_files, exc, img, fonts,
                   envVars, colorVars, gradVars>>

\* any step of create_og_image may fail for want of memory
StepRaises ==
    /\ pc \in InImage
    /\ Raise("MemoryError", pc)
    /\ UNCHANGED <<files, run, created_files, stdout, envVars, colorVars, gradVars>>

\* the script is run again
Rerun ==
    /\ pc \in {"done", "aborted"}
    /\ run < MaxRuns
    /\ run' = run + 1
    /\ pc' = "main" /\ idx' = 0 /\ created_files' = <<>> /\ stdout' = <<>>
    /\ exc' = NoException /\ img' = NoCanvas /\ fonts' = <<>>
    /\ UNCHANGED <<files, envVars, colorVars, gradVars>>

Next ==
    \/ MainStart \/ CreateGradient \/ AddDecorativeElements \/ Overlay
    \/ LoadFont \/ DrawText \/ CornerAccents \/ SaveImage \/ Summary
    \/ StepRaises \/ Rerun

Spec == Init /\ [][Next]_vars

(***************************************************************************)
(* Claims about hex_to_rgb                                                 *)
(***************************************************************************)
\* C2: hex_to_rgb of the '#RRGGBB' string built from r, g, b in 0..255
\* returns exactly (r, g, b), so every returned channel is in 0..255.
C2_RoundTrip ==
    cpc = "parsed" =>
        /\ ~cout.raised
        /\ cout.rgb = <<cin.r, cin.g, cin.b>>
        /\ \A k \in 1..3 : cout.rgb[k] \in Channel

C2_Witness ==
    /\ cpc = "parsed"
    /\ cin = [r |-> 171, g |-> 10, b |-> 255, lower |-> TRUE]
    /\ cstr = <<"#", "a", "b", "0", "a", "f", "f">>
    /\ cout.rgb = <<171, 10, 255>>

(***************************************************************************)
(* Claims about create_gradient                                            *)
(***************************************************************************)
\* start + (end - start) * x / width in exact arithmetic, cut to an integer
\* (the value is never negative, so the cut is the floor)
ExactChannel(c1, c2, x, width) == c1 + (((c2 - c1) * x) \div width)

Within1(a, b) == Abs(a - b) <= 1

\* C3 as stated: for any width >= 1, column 0 is the start colour and
\* column width-1 the end colour, each within 1 per channel.
C3_Endpoints ==
    gpc = "returned" =>
        \A k \in 1..3 :
            /\ Within1(gimg[0][k], grgb1[k])
            /\ Within1(gimg[gwidth - 1][k], grgb2[k])

\* C3 amended: column 0 is the start colour and column width-1 the end
\* colour, each within 1 per channel, the latter on every channel whose
\* start and end values differ by less than the width.
C3_EndpointsWide ==
    gpc = "returned" =>
        \A k \in 1..3 :
            /\ Within1(gimg[0][k], grgb1[k])
            /\ Abs(grgb2[k] - grgb1[k]) < gwidth
                   => Within1(gimg[gwidth - 1][k], grgb2[k])

C3_Witness ==
    /\ gpc = "returned" /\ gwidth = 4
    /\ gcolor1 = Black /\ gcolor2 = NearBlack
    /\ gimg[0] = <<0, 0, 0>> /\ gimg[3] = <<2, 1, 0>>

Between(v, a, b) == (a <= v /\ v <= b) \/ (b <= v /\ v <= a)

Monotone(k) ==
    \A x \in 1..(gx - 1) :
        /\ grgb1[k] < grgb2[k] => gimg[x - 1][k] <= gimg[x][k]
        /\ grgb1[k] > grgb2[k] => gimg[x - 1][k] >= gimg[x][k]

\* C4 as stated: every channel of every drawn column is the exact value of
\* start + (end - start) * x / width cut to an integer, lies between start
\* and end, and runs monotonically from column to column.
C4_ExactTruncation ==
    gpc \in {"loop", "returned"} =>
        \A k \in 1..3 :
            /\ \A x \in 0..(gx - 1) :
                /\ gimg[x][k] = ExactChannel(grgb1[k], grgb2[k], x, gwidth)
                /\ Between(gimg[x][k], grgb1[k], grgb2[k])
            /\ Monotone(k)

\* C4 amended: every channel of every drawn column is that exact value cut
\* to an integer, or one less where the exact value is itself an integer
\* that the float computation falls short of; it lies between start and
\* end (so in 0..255) and runs monotonically from column to column.
C4_FloatTruncation ==
    gpc \in {"loop", "returned"} =>
        \A k \in 1..3 :
            /\ \A x \in 0..(gx - 1) :
                LET exact == ExactChannel(grgb1[k], grgb2[k], x, gwidth)
                    whole == ((grgb2[k] - grgb1[k]) * x) % gwidth = 0
                IN /\ gimg[x][k] \in {exact, exact - 1}
                   /\ gimg[x][k] # exact => whole /\ x > 0
                   /\ Between(gimg[x][k], grgb1[k], grgb2[k])
                   /\ gimg[x][k] \in Channel
            /\ Monotone(k)

C4_Witness ==
    /\ gpc = "returned" /\ gwidth = 10
    /\ gcolor1 = Black /\ gcolor2 = Red90
    /\ gimg[7][1] = 62 /\ gimg[9][1] = 81

(***************************************************************************)
(* Claims about main and create_og_image                                   *)
(***************************************************************************)
FiveFiles ==
    {"og-image.png", "og-image-americano.png", "og-image-mexicano.png",
     "og-image-mix.png", "og-image-team.png"}

FileOfKey ==
    [k \in {"main", "americano", "mexicano", "mix", "team"} |->
      CASE k = "main" -> "og-image.png"
        [] k = "americano" -> "og-image-americano.png"
        [] k = "mexicano" -> "og-image-mexicano.png"
        [] k = "mix" -> "og-image-mix.png"
        [] k = "team" -> "og-image-team.png"]

\* the lines "Created <name>" printed so far
CreatedLines(name) ==
    Len(SelectSeq(stdout, LAMBDA l : l = Line("created", name, 0)))

TextsOf(image) == SelectSeq(image.layers, LAMBDA l : l.op = "text")

\* the image in a file is the one of format k: its title and subtitle
IsImageOf(image, k) ==
    /\ Len(TextsOf(image)) = 5
    /\ \E i \in 1..5 : /\ TextsOf(image)[i].what = "title"
                        /\ TextsOf(image)[i].text = FORMATS[k].title
    /\ \E i \in 1..5 : /\ TextsOf(image)[i].what = "subtitle"
                        /\ TextsOf(image)[i].text = FORMATS[k].subtitle

\* C1: after a run of main() in which nothing raised, the files of the
\* output directory are exactly the five named ones, the file of each
\* format holds that format's 1200x630 image, each was written once, and
\* the count reported is 5.
C1_FiveFiles ==
    (pc = "done" /\ exc = NoException) =>
        /\ DOMAIN files = FiveFiles
        /\ \A k \in DOMAIN FileOfKey :
            /\ files[FileOfKey[k]].size = <<1200, 630>>
            /\ IsImageOf(files[FileOfKey[k]], k)
            /\ CreatedLines(FileOfKey[k]) = 1
        /\ Len(created_files) = 5
        /\ {created_files[i] : i \in 1..Len(created_files)} = FiveFiles
        /\ \E i \in 1..Len(stdout) : stdout[i] = Line("count", "", 5)

C1_Witness ==
    /\ pc = "done" /\ run = 1 /\ exc = NoException
    /\ DOMAIN files = FiveFiles
    /\ IsImageOf(files["og-image-americano.png"], "americano")
    /\ created_files[5] = "og-image-team.png"

\* C5: once a run has left all five files, every step of a later run
\* leaves the directory as it is: no file is added or removed, and a file
\* that is rewritten holds the same content as before.
C5_Idempotent ==
    [][DOMAIN files = FiveFiles => files' = files]_vars

C5_Witness ==
    /\ run = 2 /\ pc = "done" /\ exc = NoException
    /\ DOMAIN files = FiveFiles
    /\ Len(created_files) = 5

\* what get_font is to return: the first candidate that loads, DejaVu
\* before Liberation, in the variant the flag selects, else the default
FirstLoadable(size, bold) ==
    LET dejavu == IF bold THEN "/usr/share/fonts/truetype/dejavu/DejaVuSans-Bold.ttf"
                  ELSE "/usr/share/fonts/truetype/dejavu/DejaVuSans.ttf"
        liberation ==
            IF bold THEN "/usr/share/fonts/truetype/liberation/LiberationSans-Bold.ttf"
            ELSE "/usr/share/fonts/truetype/liberation/LiberationSans-Regular.ttf"
    IN IF fontFiles[dejavu] = "ok" THEN [path |-> dejavu, size |-> size]
       ELSE IF fontFiles[liberation] = "ok" THEN [path |-> liberation, size |-> size]
       ELSE [path |-> "load_default", size |-> 0]

FontsAsExpected ==
    \A i \in 1..Len(fonts) :
        fonts[i] = FirstLoadable(FontCalls[i].size, FontCalls[i].bold)

\* no exception has come out of get_font itself
NoFontError == ~(exc.at = "fonts" /\ exc.type # "MemoryError")

\* C6: with every font file either present or missing, each get_font call
\* returns the first candidate that loads, DejaVu before Liberation, or
\* the built-in default when neither loads, and never raises.
C6_FontFallback ==
    (\A f \in FontPaths : fontFiles[f] \in {"ok", "missing"}) =>
        FontsAsExpected /\ NoFontError

C6_Witness ==
    /\ fontFiles[DejaVuBold] = "missing" /\ fontFiles[LiberationBold] = "ok"
    /\ fontFiles[DejaVuRegular] = "missing" /\ fontFiles[LiberationRegular] = "missing"
    /\ Len(fonts) = 5
    /\ fonts[1] = [path |-> LiberationBold, size |-> 72]
    /\ fonts[3] = DefaultFont

\* the candidates a get_font call gets to: the first, and the second when
\* the first did not load
TriedPaths(bold) ==
    {font_names(bold)[1]} \cup
        (IF fontFiles[font_names(bold)[1]] # "ok" THEN {font_names(bold)[2]} ELSE {})

\* C8 as stated: a corrupt file at a candidate path that get_font gets to
\* is fatal, so no get_font call that met one has returned.
C8_CorruptFontFatal ==
    \A i \in 1..Len(fonts) :
        \A f \in TriedPaths(FontCalls[i].bold) : fontFiles[f] # "corrupt"

\* C8 amended: a corrupt file at a candidate path is skipped like a
\* missing one: get_font goes on to the next candidate and at last to the
\* built-in default, never returns the corrupt file and never raises.
C8_CorruptFontSkipped ==
    (\E f \in FontPaths : fontFiles[f] = "corrupt") =>
        /\ FontsAsExpected
        /\ \A i \in 1..Len(fonts) :
              fonts[i].path \in FontPaths => fontFiles[fonts[i].path] # "corrupt"
        /\ NoFontError

C8_Witness ==
    /\ fontFiles[DejaVuBold] = "corrupt" /\ fontFiles[LiberationBold] = "ok"
    /\ fontFiles[DejaVuRegular] = "corrupt" /\ fontFiles[LiberationRegular] = "missing"
    /\ pc = "done"
    /\ DOMAIN files = FiveFiles
    /\ \E i \in 1..9 :
          /\ files["og-image.png"].layers[i].op = "text"
          /\ files["og-image.png"].layers[i].what = "tagline"
          /\ files["og-image.png"].layers[i].font = DefaultFont

\* the names of the files of the formats before the i-th
EarlierFiles(i) == {FileOfKey[FormatKeys[j]] : j \in 1..(i - 1)}

\* C7: a step that raises ends the run at that image: the run is aborted
\* with format_key unchanged, nothing more is printed or collected, the
\* files of the earlier images stay as they are, no summary is reported,
\* and an aborted run takes no further step of its own.
C7_AbortAtFailingImage ==
    [][/\ (exc.type = "" /\ exc'.type # "") =>
            /\ pc' = "aborted" /\ idx' = idx
            /\ stdout' = stdout /\ created_files' = created_files
            /\ EarlierFiles(idx) \subseteq DOMAIN files'
            /\ \A f \in EarlierFiles(idx) : files'[f] = files[f]
            /\ \A i \in 1..Len(stdout') : stdout'[i].kind # "count"
       /\ exc.type # "" => (pc = "aborted" /\ pc' \in {"aborted", "main"})
       /\ pc = "aborted" => (files' = files /\ run' = run + 1)
      ]_vars

C7_Witness ==
    /\ pc = "aborted" /\ run = 1 /\ idx = 3
    /\ exc = [type |-> "MemoryError", at |-> "text"]
    /\ DOMAIN files = {"og-image.png", "og-image-americano.png"}
    /\ created_files = <<"og-image.png", "og-image-americano.png">>

\* C9: with the output directory missing or not writable, the run fails at
\* the save step of the first image (unless it failed before), no file of
\* any kind is created, and nothing is reported as created.
C9_NoFileWithoutDirectory ==
    outdir # "ok" =>
        /\ files = NoFiles
        /\ idx <= 1
        /\ pc \notin {"summary", "done"}
        /\ created_files = <<>>
        /\ \A f \in FiveFiles : CreatedLines(f) = 0
        /\ (pc = "aborted" /\ exc.type # "MemoryError") =>
              /\ exc.at = "save"
              /\ exc.type = IF outdir = "missing" THEN "FileNotFoundError"
                            ELSE "PermissionError"

C9_Witness ==
    /\ outdir = "unwritable" /\ pc = "aborted" /\ idx = 1
    /\ exc = [type |-> "PermissionError", at |-> "save"]
    /\ files = NoFiles

\* the drawing calls of one image, in order
ExpectedOps ==
    <<"decor", "overlay", "text", "text", "text", "text", "text", "accents">>
ExpectedTexts == <<"icon", "title", "subtitle", "tagline", "brand">>

InOrder(image) ==
    /\ Len(image.layers) <= Len(ExpectedOps)
    /\ \A i \in 1..Len(image.layers) : image.layers[i].op = ExpectedOps[i]
    /\ \A i \in 1..Len(TextsOf(image)) : TextsOf(image)[i].what = ExpectedTexts[i]

\* C10: the canvas of an image starts from its own gradient and takes the
\* decoration, the overlay, the five texts and the accents in that order,
\* the fonts being resolved after the overlay and before the first text; a
\* file is written once per run, only from a canvas that has taken every
\* drawing step, and holds nothing of another format's image.
C10_StepOrder ==
    /\ InOrder(img)
    /\ pc = "gradient" => img = NoCanvas /\ fonts = <<>>
    /\ pc = "decor" => img.layers = <<>>
    /\ Len(fonts) > 0 => Len(img.layers) >= 2
    /\ TextsDrawn(img) > 0 => Len(fonts) = 5
    /\ pc = "save" => Len(img.layers) = Len(ExpectedOps)
    /\ \A j \in 1..NumFormats :
        LET name == FileOfKey[FormatKeys[j]]
        IN /\ CreatedLines(name) = (IF pc \in InImage \cup {"aborted"} /\ j >= idx
                                    THEN 0 ELSE IF pc = "main" THEN 0 ELSE 1)
           /\ name \in DOMAIN files =>
                /\ InOrder(files[name])
                /\ Len(files[name].layers) = Len(ExpectedOps)
                /\ IsImageOf(files[name], FormatKeys[j])
                /\ \A i \in 1..5 :
                      TextsOf(files[name])[i].text
                          = TextOf(FORMATS[FormatKeys[j]], ExpectedTexts[i])

C10_Witness ==
    /\ pc = "save" /\ idx = 2 /\ run = 1
    /\ Len(img.layers) = 8
    /\ img.layers[8].op = "accents"
    /\ "og-image.png" \in DOMAIN files
    /\ CreatedLines("og-image.png") = 1

====
